---- MODULE Spec2Model ----
(***************************************************************************)
(* Model of surfaxe/generation.py: one call of get_one_hkl_slabs or of     *)
(* get_all_slabs, from argument validation through slab enumeration,       *)
(* deduplication, warning emission and output emission, and of a direct    *)
(* call of oxidation_states.                                               *)
(*                                                                         *)
(* The pymatgen collaborators (structure parser, slab generator, the slab  *)
(* predicates and ==, the writers) are inputs of the model: the generator  *)
(* returns, for every (thickness, vacuum) pair, any sequence of            *)
(* terminations of a small catalogue, and returns the same sequence when   *)
(* it is asked for the same pair again.                                    *)
(***************************************************************************)
EXTENDS Integers, Sequences, FiniteSets, TLC

\* ------------------------------------------------------------------ bounds
\* Largest number of terminations the generator returns for one pair.
MaxTerm == 2
\* Largest number of terminations the generator returns over one call.
MaxTotal == 4

\* Largest number of sites of a structure handed to oxidation_states.
MaxSites == 3

\* ------------------------------------------------------- program constants
\* Default of the max_size argument.
max_size == 500

\* ------------------------------------------------------------------ inputs
\* Names of the four required arguments of each function.
Required(f) ==
    IF f = "get_one_hkl_slabs"
    THEN {"structure", "hkl", "thicknesses", "vacuums"}
    ELSE {"structure", "max_index", "thicknesses", "vacuums"}

\* Values a caller passes for thicknesses and vacuums (lists, possibly empty,
\* possibly with a repeated entry).
ThicknessArgs == {<< >>, <<10>>, <<10, 20>>, <<10, 10>>}
VacuumArgs == {<< >>, <<15>>, <<15, 30>>}

\* The terminations the slab generator can return.  geom stands for the
\* geometry (lattice and sites); the atom count, the dipole and the inversion
\* symmetry are properties of the geometry.
Catalogue ==
    { [geom |-> "A", atoms |-> max_size,     polar |-> FALSE, symmetric |-> TRUE,
       miller_index |-> <<0, 0, 1>>],
      [geom |-> "B", atoms |-> max_size + 1, polar |-> FALSE, symmetric |-> TRUE,
       miller_index |-> <<1, 1, 0>>],
      [geom |-> "C", atoms |-> max_size + 1, polar |-> FALSE, symmetric |-> FALSE,
       miller_index |-> <<1, 1, 1>>],
      [geom |-> "P", atoms |-> max_size,     polar |-> TRUE,  symmetric |-> TRUE,
       miller_index |-> <<0, 0, 1>>] }

\* The ox_states argument: None, a dict from element to oxidation state, a
\* list of oxidation states by site, or a value of another type (a tuple).
OxNone == [type |-> "NoneType", by_element |-> << >>, by_site |-> << >>]
OxArgs ==
    {OxNone}
    \cup { [type |-> "dict", by_element |-> m, by_site |-> << >>] :
              m \in UNION { [S -> {-2, 3}] : S \in SUBSET {"Fe", "O"} } }
    \cup { [type |-> t, by_element |-> << >>, by_site |-> l] :
              t \in {"list", "tuple"},
              l \in UNION { [1..n -> {-2, 3}] : n \in 0..MaxSites } }

\* Structures handed to oxidation_states: the species of the sites.
StructureArgs == UNION { [1..n -> {"Fe", "O"}] : n \in 1..MaxSites }

VARIABLES
    fn,                   \* the function called
    unset,                \* required arguments left at their default None
    structure,            \* file name of the bulk structure ("" when None)
    hkl,                  \* Miller index of get_one_hkl_slabs (<<>> when None)
    max_index,            \* max_index of get_all_slabs (0 when None)
    thicknesses,          \* list of slab thicknesses (<<>> when None)
    vacuums,              \* list of vacuum thicknesses (<<>> when None)
    make_fols,
    make_input_files,
    is_symmetric,
    ox_states,
    pc,                   \* position of the call
    err,                  \* exception that ended the call, "none" otherwise
    loaded,               \* the structure file has been read
    struc,                \* the structure: species and oxidation state by site
    decorated,            \* calls of the structure's add_oxidation_state_*
    bulk_name,
    vi, ti,               \* positions of the vacuum and thickness loops
    calls,                \* generator invocations: arguments and result
    provisional,
    di,                   \* position of the deduplication loop
    unique_list,
    unique_list_of_dicts,
    repeat,
    large,
    warned,               \* warnings.warn calls, in order
    folders,              \* folders created by os.makedirs
    wi,                   \* position of the write loop
    written               \* outputs written, in order

args == <<fn, unset, structure, hkl, max_index, thicknesses, vacuums,
          make_fols, make_input_files, is_symmetric, ox_states>>
vars == <<fn, unset, structure, hkl, max_index, thicknesses, vacuums,
          make_fols, make_input_files, is_symmetric, ox_states, pc, err,
          loaded, struc, decorated,
          bulk_name, vi, ti, calls, provisional, di, unique_list,
          unique_list_of_dicts, repeat, large, warned, folders, wi, written>>

\* ----------------------------------------------------------------- helpers
\* ''.join(map(str, seq))
RECURSIVE JoinStr(_)
JoinStr(seq) ==
    IF seq = << >> THEN "" ELSE ToString(Head(seq)) \o JoinStr(Tail(seq))

\* struc.formula.replace(" ", ""): the formula is its element tokens joined
\* by blanks, the bulk name the same tokens joined by nothing.
RECURSIVE Concat(_)
Concat(tokens) ==
    IF tokens = << >> THEN "" ELSE Head(tokens) \o Concat(Tail(tokens))

Formula == <<"Fe2", "O3">>

\* '{}_{}_{}_{}'.format(hkl, slab_t, vac_t, s_index)
Ident(d) ==
    d.hkl \o "_" \o ToString(d.slab_t) \o "_" \o ToString(d.vac_t)
          \o "_" \o ToString(d.s_index)

\* Slab.__eq__ as used by "slab not in unique_list": equality of geometry.
SlabEq(a, b) == a.geom = b.geom

\* Mutant of NotIn: only the most recently accepted slab is compared.
NotInLast(slab, list) ==
    list = << >> \/ ~SlabEq(slab, list[Len(list)])

\* slab['slab'] not in unique_list
NotIn(slab, list) == \A k \in 1..Len(list) : ~SlabEq(slab, list[k])

\* Mutant of TooLarge: the boundary is inclusive.
TooLargeInclusive(atoms, limit) == atoms >= limit

\* atoms > max_size
TooLarge(atoms, limit) == atoms > limit

\* Mutant of SelectedOne: the symmetry requirement is dropped.
SelectedOneNoSymmetry(sym, slab) == ~slab.polar

\* The filter of get_one_hkl_slabs (lines 112-122).
SelectedOne(sym, slab) ==
    IF sym THEN slab.symmetric /\ ~slab.polar
           ELSE ~slab.polar

\* The filter of get_all_slabs (lines 271-281).
SelectedAll(sym, slab) ==
    IF sym THEN (slab.polar = FALSE) /\ (slab.symmetric = TRUE)
           ELSE ~slab.polar

\* Mutant of Selected: with is_symmetric set the dipole is not looked at.
SelectedSymmetryOnly(f, sym, slab) ==
    IF sym THEN slab.symmetric ELSE ~slab.polar

Selected(f, sym, slab) ==
    IF f = "get_one_hkl_slabs" THEN SelectedOne(sym, slab)
                               ELSE SelectedAll(sym, slab)

\* The dict appended to provisional for termination i (0-based) of a pair.
Candidate(slab, thickness, vacuum, i) ==
    [hkl |-> JoinStr(slab.miller_index), slab_t |-> thickness,
     vac_t |-> vacuum, s_index |-> i, slab |-> slab]

\* Mutant of Collect: s_index counts the selected terminations only.
CollectRenumbered(f, sym, slabs, thickness, vacuum, i) ==
    LET kept == SelectSeq(slabs, LAMBDA x : Selected(f, sym, x))
    IN  [k \in 1..Len(kept) |-> Candidate(kept[k], thickness, vacuum, k - 1)]

\* for i, slab in enumerate(slabs): append the selected ones.
RECURSIVE Collect(_, _, _, _, _, _)
Collect(f, sym, slabs, thickness, vacuum, i) ==
    IF i >= Len(slabs) THEN << >>
    ELSE (IF Selected(f, sym, slabs[i + 1])
          THEN << Candidate(slabs[i + 1], thickness, vacuum, i) >>
          ELSE << >>)
         \o Collect(f, sym, slabs, thickness, vacuum, i + 1)

\* not any([structure, hkl, thicknesses, vacuums]): every argument is falsy.
NoneSupplied ==
    /\ structure = ""
    /\ IF fn = "get_one_hkl_slabs" THEN hkl = << >> ELSE max_index = 0
    /\ thicknesses = << >>
    /\ vacuums = << >>

\* Number of terminations returned so far.
RECURSIVE Returned(_)
Returned(cs) ==
    IF cs = << >> THEN 0 ELSE Len(Head(cs).slabs) + Returned(Tail(cs))

\* Sequences over S of length at most n.
SeqsUpTo(S, n) == UNION { [1..k -> S] : k \in 0..n }

\* What the generator returns for a pair: its earlier answer for the same
\* arguments, otherwise any sequence of terminations.  get_one_hkl_slabs cuts
\* one plane, so every termination carries the requested Miller index.
Terminations ==
    IF fn = "get_one_hkl_slabs"
    THEN { [s EXCEPT !.miller_index = hkl] : s \in Catalogue }
    ELSE Catalogue

Min(a, b) == IF a < b THEN a ELSE b
Max(a, b) == IF a > b THEN a ELSE b

GeneratorResults(thickness, vacuum) ==
    LET earlier == { k \in 1..Len(calls) :
                        calls[k].slab_t = thickness /\ calls[k].vac_t = vacuum }
    IN  IF earlier # {}
        THEN { calls[CHOOSE k \in earlier : TRUE].slabs }
        ELSE SeqsUpTo(Terminations,
                      Min(MaxTerm, Max(0, MaxTotal - Returned(calls))))

\* ------------------------------------------------------------------- Init
Init ==
    /\ fn \in {"get_one_hkl_slabs", "get_all_slabs"}
    /\ unset \in SUBSET Required(fn)
    /\ structure = IF "structure" \in unset THEN "" ELSE "bulk.cif"
    /\ hkl = IF fn = "get_one_hkl_slabs" /\ "hkl" \notin unset
             THEN <<0, 0, 1>> ELSE << >>
    /\ max_index = IF fn = "get_all_slabs" /\ "max_index" \notin unset
                   THEN 1 ELSE 0
    /\ thicknesses \in IF "thicknesses" \in unset THEN {<< >>} ELSE ThicknessArgs
    /\ vacuums \in IF "vacuums" \in unset THEN {<< >>} ELSE VacuumArgs
    /\ make_fols \in BOOLEAN
    /\ make_input_files \in BOOLEAN
    /\ is_symmetric \in BOOLEAN
    /\ ox_states = OxNone
    /\ pc = "validate"
    /\ err = "none"
    /\ loaded = FALSE
    /\ struc = << >>
    /\ decorated = << >>
    /\ bulk_name = ""
    /\ vi = 1
    /\ ti = 1
    /\ calls = << >>
    /\ provisional = << >>
    /\ di = 1
    /\ unique_list = << >>
    /\ unique_list_of_dicts = << >>
    /\ repeat = << >>
    /\ large = << >>
    /\ warned = << >>
    /\ folders = {}
    /\ wi = 1
    /\ written = << >>

\* ---------------------------------------------------------------- actions
\* Lines 92-94 / 249-251: the check of the required arguments.
Validate ==
    /\ pc = "validate"
    /\ IF NoneSupplied
       THEN pc' = "raised" /\ err' = "ValueError"
       ELSE pc' = "load" /\ err' = err
    /\ UNCHANGED <<args, loaded, struc, decorated,
                   bulk_name, vi, ti, calls, provisional, di,
                   unique_list, unique_list_of_dicts, repeat, large, warned,
                   folders, wi, written>>

\* The sites of the bulk structure in the file, without oxidation states.
Bulk ==
    [k \in 1..5 |-> [species |-> IF k <= 2 THEN "Fe" ELSE "O", oxi |-> 0]]

\* Structure.add_oxidation_state_by_element: fails unless every element of
\* the structure is a key of the dict.
ByElement(st, m) ==
    IF \A k \in 1..Len(st) : st[k].species \in DOMAIN m
    THEN [ok |-> TRUE,
          struc |-> [k \in 1..Len(st) |->
                        [st[k] EXCEPT !.oxi = m[st[k].species]]]]
    ELSE [ok |-> FALSE, struc |-> st]

\* Structure.add_oxidation_state_by_site: fails unless the list has one
\* entry per site.
BySite(st, l) ==
    IF Len(l) = Len(st)
    THEN [ok |-> TRUE,
          struc |-> [k \in 1..Len(st) |-> [st[k] EXCEPT !.oxi = l[k]]]]
    ELSE [ok |-> FALSE, struc |-> st]

\* Structure.add_oxidation_state_by_guess(max_sites=-1): the library's
\* guess for the composition.
ByGuess(st) ==
    [ok |-> TRUE,
     struc |-> [k \in 1..Len(st) |->
                   [st[k] EXCEPT !.oxi = IF st[k].species = "Fe" THEN 3 ELSE -2]]]

\* Mutant of oxidation_states: a list is handed to the by-element decorator.
oxidation_states_by_element(st, ox) ==
    IF ox.type = "dict"
    THEN [method |-> "by_element", out |-> ByElement(st, ox.by_element)]
    ELSE IF ox.type = "list"
    THEN [method |-> "by_element", out |-> ByElement(st, ox.by_site)]
    ELSE [method |-> "by_guess", out |-> ByGuess(st)]

\* Lines 366-373: oxidation_states(structure, ox_states): the decorator
\* chosen by the type of ox_states, and what it does to the structure.
oxidation_states(st, ox) ==
    IF ox.type = "dict"
    THEN [method |-> "by_element", out |-> ByElement(st, ox.by_element)]
    ELSE IF ox.type = "list"
    THEN [method |-> "by_site", out |-> BySite(st, ox.by_site)]
    ELSE [method |-> "by_guess", out |-> ByGuess(st)]

\* Lines 98-100 / 255-257: Structure.from_file, the bulk name, the oxidation
\* states.  The parser raises when it is handed None; an exception of the
\* decorator is not caught.
Load ==
    /\ pc = "load"
    /\ IF structure = ""
       THEN pc' = "raised" /\ err' = "LibraryError"
            /\ UNCHANGED <<loaded, bulk_name, struc, decorated>>
       ELSE LET r == oxidation_states(Bulk, ox_states)
            IN  /\ loaded' = TRUE
                /\ bulk_name' = Concat(Formula)
                /\ decorated' = Append(decorated, r.method)
                /\ struc' = r.out.struc
                /\ IF r.out.ok
                   THEN pc' = "enumerate" /\ err' = err
                   ELSE pc' = "raised" /\ err' = "LibraryError"
    /\ UNCHANGED <<args, vi, ti, calls, provisional, di, unique_list,
                   unique_list_of_dicts, repeat, large, warned, folders, wi,
                   written>>

\* The two for statements have a pair left to visit.
PairLeft == vi <= Len(vacuums) /\ ti <= Len(thicknesses)

\* Lines 104-105 / 261-262: iterating over an argument that is None.
IterateNone ==
    /\ pc = "enumerate"
    /\ \/ "vacuums" \in unset
       \/ vi <= Len(vacuums) /\ "thicknesses" \in unset
    /\ pc' = "raised"
    /\ err' = "TypeError"
    /\ UNCHANGED <<args, loaded, struc, decorated,
                   bulk_name, vi, ti, calls, provisional, di,
                   unique_list, unique_list_of_dicts, repeat, large, warned,
                   folders, wi, written>>

\* Mutant of Advance: the inner loop is left after its first pass.
AdvanceBreaks(v, t, n) == <<v + 1, 1>>

\* Lines 104-105 / 261-262: the loop positions after the pass for vacuum v
\* and thickness t of n: the next thickness, or the next vacuum with the
\* first thickness.
Advance(v, t, n) == IF t < n THEN <<v, t + 1>> ELSE <<v + 1, 1>>

\* Lines 106-127 / 263-286: one pass of the inner loop: the generator is
\* called for (thicknesses[ti], vacuums[vi]) and its terminations filtered.
\* The generator raises when the Miller index specification is None.
Generate ==
    /\ pc = "enumerate"
    /\ "vacuums" \notin unset
    /\ "thicknesses" \notin unset
    /\ PairLeft
    /\ LET thickness == thicknesses[ti]
           vacuum == vacuums[vi]
       IN  IF (fn = "get_one_hkl_slabs" /\ hkl = << >>)
              \/ (fn = "get_all_slabs" /\ max_index = 0)
           THEN /\ pc' = "raised"
                /\ err' = "LibraryError"
                /\ UNCHANGED <<vi, ti, calls, provisional>>
           ELSE \E slabs \in GeneratorResults(thickness, vacuum) :
                /\ calls' = Append(calls, [slab_t |-> thickness,
                                           vac_t |-> vacuum, slabs |-> slabs])
                /\ provisional' = provisional \o
                       Collect(fn, is_symmetric, slabs, thickness, vacuum, 0)
                /\ vi' = Advance(vi, ti, Len(thicknesses))[1]
                /\ ti' = Advance(vi, ti, Len(thicknesses))[2]
                /\ pc' = pc
                /\ err' = err
    /\ UNCHANGED <<args, loaded, struc, decorated, bulk_name, di, unique_list,
                   unique_list_of_dicts, repeat, large, warned, folders, wi,
                   written>>

\* The loops of lines 104-105 / 261-262 are exhausted.
EndEnumerate ==
    /\ pc = "enumerate"
    /\ "vacuums" \notin unset
    /\ \/ vi > Len(vacuums)
       \/ "thicknesses" \notin unset /\ thicknesses = << >>
    /\ pc' = "dedup"
    /\ UNCHANGED <<args, err, loaded, struc, decorated,
                   bulk_name, vi, ti, calls, provisional,
                   di, unique_list, unique_list_of_dicts, repeat, large,
                   warned, folders, wi, written>>

\* Mutant of Classify: a duplicate is dropped without being recorded.
ClassifyDropsRepeat(cand, ulist, udicts, rep, lrg) ==
    IF NotIn(cand.slab, ulist)
    THEN [unique_list |-> Append(ulist, cand.slab),
          unique_list_of_dicts |-> Append(udicts, cand),
          repeat |-> rep,
          large |-> IF TooLarge(cand.slab.atoms, max_size)
                    THEN Append(lrg, Ident(cand)) ELSE lrg]
    ELSE [unique_list |-> ulist, unique_list_of_dicts |-> udicts,
          repeat |-> rep, large |-> lrg]

\* Mutant of Classify: unique_list.append sits outside the if, so the slab
\* of a duplicate is appended to unique_list as well.
ClassifyAlwaysAppends(cand, ulist, udicts, rep, lrg) ==
    IF NotIn(cand.slab, ulist)
    THEN [unique_list |-> Append(ulist, cand.slab),
          unique_list_of_dicts |-> Append(udicts, cand),
          repeat |-> rep,
          large |-> IF TooLarge(cand.slab.atoms, max_size)
                    THEN Append(lrg, Ident(cand)) ELSE lrg]
    ELSE [unique_list |-> Append(ulist, cand.slab),
          unique_list_of_dicts |-> udicts,
          repeat |-> Append(rep, Ident(cand)), large |-> lrg]

\* Mutant of Classify: a duplicate takes the place of the record it equals,
\* and the identifier of the replaced record goes to repeat.
ClassifyKeepsLast(cand, ulist, udicts, rep, lrg) ==
    IF NotIn(cand.slab, ulist)
    THEN [unique_list |-> Append(ulist, cand.slab),
          unique_list_of_dicts |-> Append(udicts, cand),
          repeat |-> rep,
          large |-> IF TooLarge(cand.slab.atoms, max_size)
                    THEN Append(lrg, Ident(cand)) ELSE lrg]
    ELSE LET p == CHOOSE k \in 1..Len(ulist) : SlabEq(cand.slab, ulist[k])
         IN  [unique_list |-> [ulist EXCEPT ![p] = cand.slab],
              unique_list_of_dicts |-> [udicts EXCEPT ![p] = cand],
              repeat |-> Append(rep, Ident(udicts[p])), large |-> lrg]

\* Lines 133-145 / 292-308: the body of the deduplication loop for one
\* candidate, as the new values of the four lists.
Classify(cand, ulist, udicts, rep, lrg) ==
    IF NotIn(cand.slab, ulist)
    THEN [unique_list |-> Append(ulist, cand.slab),
          unique_list_of_dicts |-> Append(udicts, cand),
          repeat |-> rep,
          large |-> IF TooLarge(cand.slab.atoms, max_size)
                    THEN Append(lrg, Ident(cand)) ELSE lrg]
    ELSE [unique_list |-> ulist,
          unique_list_of_dicts |-> udicts,
          repeat |-> Append(rep, Ident(cand)),
          large |-> lrg]

\* Mutant of Warnings: the duplicate warning is never emitted.
WarningsLargeOnly(rep, lrg) ==
    IF lrg # << >> THEN << [kind |-> "large", ids |-> lrg] >> ELSE << >>

\* Lines 130-145 / 289-308: the four empty lists and the whole loop over a
\* candidate list, as the final value of the four lists.
RECURSIVE DedupLoop(_, _)
DedupLoop(cands, lists) ==
    IF cands = << >> THEN lists
    ELSE DedupLoop(Tail(cands),
                   Classify(Head(cands), lists.unique_list,
                            lists.unique_list_of_dicts, lists.repeat,
                            lists.large))

DedupPass(cands) ==
    DedupLoop(cands, [unique_list |-> << >>, unique_list_of_dicts |-> << >>,
                      repeat |-> << >>, large |-> << >>])

\* Lines 148-157 / 311-320: the two warnings, each a single message that
\* lists the identifiers joined by ', '.
Warnings(rep, lrg) ==
    (IF rep # << >> THEN << [kind |-> "repeat", ids |-> rep] >> ELSE << >>)
    \o (IF lrg # << >> THEN << [kind |-> "large", ids |-> lrg] >> ELSE << >>)

\* Lines 132-145: one pass of the deduplication loop of get_one_hkl_slabs.
DedupOne ==
    /\ pc = "dedup"
    /\ fn = "get_one_hkl_slabs"
    /\ di <= Len(provisional)
    /\ LET r == Classify(provisional[di], unique_list, unique_list_of_dicts,
                         repeat, large)
       IN  /\ unique_list' = r.unique_list
           /\ unique_list_of_dicts' = r.unique_list_of_dicts
           /\ repeat' = r.repeat
           /\ large' = r.large
    /\ di' = di + 1
    /\ UNCHANGED <<args, pc, err, loaded, struc, decorated,
                   bulk_name, vi, ti, calls,
                   provisional, warned, folders, wi, written>>

\* Lines 148-157: after the loop get_one_hkl_slabs emits its warnings.
WarnOne ==
    /\ pc = "dedup"
    /\ fn = "get_one_hkl_slabs"
    /\ di > Len(provisional)
    /\ warned' = warned \o Warnings(repeat, large)
    /\ pc' = "emit"
    /\ UNCHANGED <<args, err, loaded, struc, decorated,
                   bulk_name, vi, ti, calls, provisional,
                   di, unique_list, unique_list_of_dicts, repeat, large,
                   folders, wi, written>>

\* Mutant of DedupAll: get_all_slabs alone tests the size with >=.
DedupAllInclusive ==
    /\ pc = "dedup"
    /\ fn = "get_all_slabs"
    /\ di <= Len(provisional)
    /\ LET cand == provisional[di]
           r == Classify(cand, unique_list, unique_list_of_dicts, repeat, large)
           lrg == IF NotIn(cand.slab, unique_list)
                     /\ cand.slab.atoms >= max_size
                  THEN Append(large, Ident(cand)) ELSE large
       IN  /\ unique_list' = r.unique_list
           /\ unique_list_of_dicts' = r.unique_list_of_dicts
           /\ repeat' = r.repeat
           /\ large' = lrg
           /\ warned' = warned \o Warnings(r.repeat, lrg)
    /\ di' = di + 1
    /\ UNCHANGED <<args, pc, err, loaded, struc, decorated, bulk_name, vi, ti,
                   calls, provisional, folders, wi, written>>

\* Lines 291-320: one pass of the deduplication loop of get_all_slabs; the
\* two warnings are inside the loop body.
DedupAll ==
    /\ pc = "dedup"
    /\ fn = "get_all_slabs"
    /\ di <= Len(provisional)
    /\ LET r == Classify(provisional[di], unique_list, unique_list_of_dicts,
                         repeat, large)
       IN  /\ unique_list' = r.unique_list
           /\ unique_list_of_dicts' = r.unique_list_of_dicts
           /\ repeat' = r.repeat
           /\ large' = r.large
           /\ warned' = warned \o Warnings(r.repeat, r.large)
    /\ di' = di + 1
    /\ UNCHANGED <<args, pc, err, loaded, struc, decorated,
                   bulk_name, vi, ti, calls,
                   provisional, folders, wi, written>>

\* Line 291: the loop of get_all_slabs is exhausted.
EndDedupAll ==
    /\ pc = "dedup"
    /\ fn = "get_all_slabs"
    /\ di > Len(provisional)
    /\ pc' = "emit"
    /\ UNCHANGED <<args, err, loaded, struc, decorated,
                   bulk_name, vi, ti, calls, provisional,
                   di, unique_list, unique_list_of_dicts, repeat, large,
                   warned, folders, wi, written>>

\* os.getcwd() and os.path.join(a, b) for a relative b.
Getcwd == "/home/user/run"
OsPathJoin(a, b) == a \o "/" \o b

\* Mutant of Structured: only make_fols selects the folders.
StructuredFolsOnly(fols, input_files) == fols

\* Line 161 / 324: folders are made when either flag is set.
Structured(fols, input_files) == fols \/ input_files

\* r'{}/{}_{}_{}'.format(hkl, slab_t, vac_t, s_index), relative to the
\* working directory.
FolderPath(d) ==
    d.hkl \o "/" \o ToString(d.slab_t) \o "_" \o ToString(d.vac_t)
          \o "_" \o ToString(d.s_index)

\* Mutant of FlatPath: the two thicknesses are written in the other order.
FlatPathSwapped(bulk, d) ==
    bulk \o "/POSCAR_" \o d.hkl \o "_" \o ToString(d.vac_t) \o "_"
         \o ToString(d.slab_t) \o "_" \o ToString(d.s_index) \o ".vasp"

\* r'{}/POSCAR_{}_{}_{}_{}.vasp'.format(bulk_name, hkl, slab_t, vac_t, s_index)
FlatPath(bulk, d) ==
    bulk \o "/POSCAR_" \o d.hkl \o "_" \o ToString(d.slab_t) \o "_"
         \o ToString(d.vac_t) \o "_" \o ToString(d.s_index) \o ".vasp"

\* Mutant of Output: the termination index is left out of the path.
OutputNoIndex(d) ==
    LET stem == d.hkl \o "_" \o ToString(d.slab_t) \o "_" \o ToString(d.vac_t)
    IN  IF Structured(make_fols, make_input_files)
        THEN IF make_input_files
             THEN [path |-> stem, writer |-> "write_input", slab |-> d.slab]
             ELSE [path |-> stem \o "/POSCAR", writer |-> "poscar",
                   slab |-> d.slab]
        ELSE [path |-> bulk_name \o "/POSCAR_" \o stem \o ".vasp",
              writer |-> "poscar", slab |-> d.slab]

\* What is written for one unique slab (lines 163-193 / 326-354).
\* get_all_slabs hands write_input the folder joined to the working
\* directory (line 338), get_one_hkl_slabs the folder as it is (line 175).
Output(d) ==
    IF Structured(make_fols, make_input_files)
    THEN IF make_input_files
         THEN [path |-> IF fn = "get_all_slabs"
                        THEN OsPathJoin(Getcwd, FolderPath(d))
                        ELSE FolderPath(d),
               writer |-> "write_input", slab |-> d.slab]
         ELSE [path |-> FolderPath(d) \o "/POSCAR", writer |-> "poscar",
               slab |-> d.slab]
    ELSE [path |-> FlatPath(bulk_name, d), writer |-> "poscar", slab |-> d.slab]

\* Folders os.makedirs creates for one unique slab: the hkl folder and the
\* slab folder below it.
SlabFolders(d) ==
    IF Structured(make_fols, make_input_files)
    THEN {d.hkl, FolderPath(d)} ELSE {}

\* Lines 161 and 187-189 / 324 and 348-350: the choice of the output mode;
\* flat mode makes the bulk-formula folder.
ChooseMode ==
    /\ pc = "emit"
    /\ folders' = IF Structured(make_fols, make_input_files)
                  THEN folders ELSE folders \cup {bulk_name}
    /\ pc' = "write"
    /\ UNCHANGED <<args, err, loaded, struc, decorated,
                   bulk_name, vi, ti, calls, provisional,
                   di, unique_list, unique_list_of_dicts, repeat, large,
                   warned, wi, written>>

\* Lines 162-184, 190-193 / 325-345, 351-354: the output of one unique slab.
WriteSlab ==
    /\ pc = "write"
    /\ wi <= Len(unique_list_of_dicts)
    /\ folders' = folders \cup SlabFolders(unique_list_of_dicts[wi])
    /\ written' = Append(written, Output(unique_list_of_dicts[wi]))
    /\ wi' = wi + 1
    /\ UNCHANGED <<args, pc, err, loaded, struc, decorated,
                   bulk_name, vi, ti, calls,
                   provisional, di, unique_list, unique_list_of_dicts, repeat,
                   large, warned>>

\* Mutant of WriteFail: the outputs written so far are removed before the
\* exception leaves the call.
WriteFailRollback ==
    /\ pc = "write"
    /\ wi <= Len(unique_list_of_dicts)
    /\ folders' = {}
    /\ written' = << >>
    /\ pc' = "raised"
    /\ err' = "OSError"
    /\ UNCHANGED <<args, loaded, struc, decorated, bulk_name, vi, ti, calls,
                   provisional, di, unique_list, unique_list_of_dicts, repeat,
                   large, warned, wi>>

\* The same lines when os.makedirs or the writer raises: nothing is caught,
\* the call ends with the writer's exception.
WriteFail ==
    /\ pc = "write"
    /\ wi <= Len(unique_list_of_dicts)
    /\ \E made \in {{}, SlabFolders(unique_list_of_dicts[wi])} :
           folders' = folders \cup made
    /\ pc' = "raised"
    /\ err' = "OSError"
    /\ UNCHANGED <<args, loaded, struc, decorated,
                   bulk_name, vi, ti, calls, provisional, di,
                   unique_list, unique_list_of_dicts, repeat, large, warned,
                   wi, written>>

\* The write loop is exhausted: the call returns.
Return ==
    /\ pc = "write"
    /\ wi > Len(unique_list_of_dicts)
    /\ pc' = "done"
    /\ UNCHANGED <<args, err, loaded, struc, decorated,
                   bulk_name, vi, ti, calls, provisional,
                   di, unique_list, unique_list_of_dicts, repeat, large,
                   warned, folders, wi, written>>

Next ==
    \/ Validate
    \/ Load
    \/ IterateNone
    \/ Generate
    \/ EndEnumerate
    \/ DedupOne
    \/ WarnOne
    \/ DedupAll
    \/ EndDedupAll
    \/ ChooseMode
    \/ WriteSlab
    \/ WriteFail
    \/ Return

Spec == Init /\ [][Next]_vars

\* ---------------------------------------- oxidation_states called by itself
\* A direct call oxidation_states(structure, ox_states) on any structure and
\* any ox_states; the variables of the slab functions stay at rest.
InitOx ==
    /\ fn = "oxidation_states"
    /\ unset = {}
    /\ structure = ""
    /\ hkl = << >>
    /\ max_index = 0
    /\ thicknesses = << >>
    /\ vacuums = << >>
    /\ make_fols = FALSE
    /\ make_input_files = FALSE
    /\ is_symmetric = TRUE
    /\ ox_states \in OxArgs
    /\ pc = "oxidation_states"
    /\ err = "none"
    /\ loaded = TRUE
    /\ \E sp \in StructureArgs :
           struc = [k \in 1..Len(sp) |-> [species |-> sp[k], oxi |-> 0]]
    /\ decorated = << >>
    /\ bulk_name = ""
    /\ vi = 1
    /\ ti = 1
    /\ calls = << >>
    /\ provisional = << >>
    /\ di = 1
    /\ unique_list = << >>
    /\ unique_list_of_dicts = << >>
    /\ repeat = << >>
    /\ large = << >>
    /\ warned = << >>
    /\ folders = {}
    /\ wi = 1
    /\ written = << >>

\* Lines 366-373: the call and its return, or the decorator's exception.
CallOxidationStates ==
    /\ pc = "oxidation_states"
    /\ LET r == oxidation_states(struc, ox_states)
       IN  /\ decorated' = Append(decorated, r.method)
           /\ struc' = r.out.struc
           /\ IF r.out.ok
              THEN pc' = "returned" /\ err' = err
              ELSE pc' = "raised" /\ err' = "LibraryError"
    /\ UNCHANGED <<args, loaded, bulk_name, vi, ti, calls, provisional, di,
                   unique_list, unique_list_of_dicts, repeat, large, warned,
                   folders, wi, written>>

NextOx == CallOxidationStates

SpecOx == InitOx /\ [][NextOx]_vars

\* ------------------------------------------------------------- properties
\* The required arguments that are falsy (None or empty).
MissingArgs ==
    (IF structure = "" THEN {"structure"} ELSE {})
    \cup (IF fn = "get_one_hkl_slabs" /\ hkl = << >> THEN {"hkl"} ELSE {})
    \cup (IF fn = "get_all_slabs" /\ max_index = 0 THEN {"max_index"} ELSE {})
    \cup (IF thicknesses = << >> THEN {"thicknesses"} ELSE {})
    \cup (IF vacuums = << >> THEN {"vacuums"} ELSE {})

\* The deduplication loop has been left.
AfterDedup ==
    \/ pc \in {"emit", "write", "done"}
    \/ pc = "raised" /\ err = "OSError"

\* Positions of the warnings of one kind in the order they were emitted.
WarnedOf(kind) == { k \in 1..Len(warned) : warned[k].kind = kind }

Range(seq) == { seq[k] : k \in 1..Len(seq) }

\* The terminations returned so far, each with the pair it was returned for
\* and its position in the generator's answer.
ReturnedTerminations ==
    UNION { { [slab_t |-> calls[k].slab_t, vac_t |-> calls[k].vac_t,
               s_index |-> i - 1, slab |-> calls[k].slabs[i]] :
                 i \in 1..Len(calls[k].slabs) } : k \in 1..Len(calls) }

\* The candidate list holds the termination t of ReturnedTerminations.
IsCandidate(t) ==
    \E j \in 1..Len(provisional) :
        /\ provisional[j].slab_t = t.slab_t
        /\ provisional[j].vac_t = t.vac_t
        /\ provisional[j].s_index = t.s_index
        /\ provisional[j].slab = t.slab

\* C1 (as claimed): when exactly one required argument is missing and the
\* others are supplied, the call raises ValueError at the argument check,
\* before the structure is loaded, a slab generated or a file written.
C1_OneMissingRaisesValueError ==
    (Cardinality(MissingArgs) = 1 /\ pc # "validate")
        => /\ pc = "raised"
           /\ err = "ValueError"
           /\ ~loaded
           /\ calls = << >>
           /\ written = << >>
           /\ folders = {}

\* C2: at every point of the deduplication pass and after it, no two
\* distinct entries of unique_list, nor of unique_list_of_dicts, are equal
\* under the slab equality.
C2_UniquePairwiseDistinct ==
    /\ \A i, j \in 1..Len(unique_list) :
           i # j => ~SlabEq(unique_list[i], unique_list[j])
    /\ \A i, j \in 1..Len(unique_list_of_dicts) :
           i # j => ~SlabEq(unique_list_of_dicts[i].slab,
                            unique_list_of_dicts[j].slab)

C2_Witness ==
    /\ pc = "dedup"
    /\ Len(unique_list) >= 2
    /\ Len(repeat) >= 1
    /\ di <= Len(provisional)

\* C3: in both functions a termination returned by the generator is a
\* candidate iff it is non-polar and (is_symmetric is False or it has
\* inversion symmetry); every candidate is such a termination, and no polar
\* termination is ever a candidate.
C3_SelectionPolicy ==
    /\ \A t \in ReturnedTerminations :
           IsCandidate(t) <=>
               (~t.slab.polar /\ (~is_symmetric \/ t.slab.symmetric))
    /\ \A j \in 1..Len(provisional) :
           /\ ~provisional[j].slab.polar
           /\ [slab_t |-> provisional[j].slab_t, vac_t |-> provisional[j].vac_t,
               s_index |-> provisional[j].s_index,
               slab |-> provisional[j].slab] \in ReturnedTerminations

C3_Witness ==
    /\ is_symmetric
    /\ pc = "dedup"
    /\ provisional # << >>
    /\ \E t \in ReturnedTerminations : t.slab.polar /\ t.slab.symmetric
    /\ \E t \in ReturnedTerminations : ~t.slab.polar /\ ~t.slab.symmetric

\* C4: with is_symmetric=True and all arguments given, as long as the
\* generator has returned no termination that is both non-polar and
\* inversion-symmetric, the call has not raised, the unique lists are empty,
\* no warning has been emitted and no slab output has been written.
C4_NothingSymmetric ==
    (/\ is_symmetric
     /\ unset = {}
     /\ \A t \in ReturnedTerminations : t.slab.polar \/ ~t.slab.symmetric)
        => /\ pc # "raised"
           /\ err = "none"
           /\ provisional = << >>
           /\ unique_list = << >>
           /\ unique_list_of_dicts = << >>
           /\ warned = << >>
           /\ written = << >>

C4_Witness ==
    /\ is_symmetric
    /\ unset = {}
    /\ pc = "done"
    /\ Len(calls) >= 2
    /\ \E t \in ReturnedTerminations : ~t.slab.polar
    /\ \E t \in ReturnedTerminations : t.slab.polar
    /\ \A t \in ReturnedTerminations : t.slab.polar \/ ~t.slab.symmetric
    /\ unique_list = << >>

\* C5: every candidate is classified exactly once.  A pass of the loop
\* appends the candidate to both unique lists when it equals none of the
\* slabs accepted before, and otherwise appends its identifier to repeat;
\* so |unique| + |repeat| is the number of candidates visited, which is
\* |candidates| after the pass, and large only holds identifiers of
\* accepted unique slabs.
C5_StepClassifies ==
    (pc = "dedup" /\ di' = di + 1) =>
        LET cand == provisional[di]
        IN  IF \A k \in 1..Len(unique_list) : ~SlabEq(cand.slab, unique_list[k])
            THEN /\ unique_list' = Append(unique_list, cand.slab)
                 /\ unique_list_of_dicts' = Append(unique_list_of_dicts, cand)
                 /\ repeat' = repeat
            ELSE /\ unique_list' = unique_list
                 /\ unique_list_of_dicts' = unique_list_of_dicts
                 /\ repeat' = Append(repeat, Ident(cand))
                 /\ large' = large

C5_Counts ==
    /\ Len(unique_list) + Len(repeat) = di - 1
    /\ Len(unique_list_of_dicts) = Len(unique_list)
    /\ di <= Len(provisional) + 1
    /\ AfterDedup => Len(unique_list) + Len(repeat) = Len(provisional)
    /\ \A id \in Range(large) :
           \E k \in 1..Len(unique_list_of_dicts) :
               Ident(unique_list_of_dicts[k]) = id

C5_ClassifiedOnce == [](C5_Counts) /\ [][C5_StepClassifies]_vars

C5_Witness ==
    /\ pc = "done"
    /\ Len(unique_list) >= 2
    /\ Len(repeat) >= 1
    /\ Len(large) >= 1

\* C6 (as claimed): a call of either function emits at most one duplicate
\* warning and at most one oversize warning, and once the candidates are
\* classified that single message lists every duplicate (oversize)
\* identifier of the call.
C6_AtMostOneWarningEach ==
    /\ Cardinality(WarnedOf("repeat")) <= 1
    /\ Cardinality(WarnedOf("large")) <= 1
    /\ AfterDedup =>
           /\ \A k \in WarnedOf("repeat") : warned[k].ids = repeat
           /\ \A k \in WarnedOf("large") : warned[k].ids = large
           /\ repeat # << >> => WarnedOf("repeat") # {}
           /\ large # << >> => WarnedOf("large") # {}

\* C7 (as claimed): after the pass a candidate is named in an oversize
\* warning iff its atom count is strictly greater than max_size.
C7_EveryOversizeCandidateNamed ==
    AfterDedup =>
        \A j \in 1..Len(provisional) :
            (provisional[j].slab.atoms > max_size)
                <=> (\E k \in WarnedOf("large") :
                         Ident(provisional[j]) \in Range(warned[k].ids))

\* C7 (amended): a candidate accepted as unique is recorded as oversize,
\* and after the pass named in the oversize warning that lists all oversize
\* identifiers, iff its atom count is strictly greater than max_size (an
\* accepted candidate of exactly max_size atoms is never named); the
\* oversize warnings name nothing but accepted candidates of more than
\* max_size atoms.
C7_OversizeAcceptedNamed ==
    /\ \A k \in 1..Len(unique_list_of_dicts) :
           (unique_list_of_dicts[k].slab.atoms > max_size)
               <=> (Ident(unique_list_of_dicts[k]) \in Range(large))
    /\ \A w \in WarnedOf("large") : \A id \in Range(warned[w].ids) :
           \E k \in 1..Len(unique_list_of_dicts) :
               /\ Ident(unique_list_of_dicts[k]) = id
               /\ unique_list_of_dicts[k].slab.atoms > max_size
    /\ (AfterDedup /\ large # << >>) =>
           \E w \in WarnedOf("large") : warned[w].ids = large

C7_Witness ==
    /\ pc = "done"
    /\ \E k \in 1..Len(unique_list) : unique_list[k].atoms = max_size
    /\ \E k \in 1..Len(unique_list) : unique_list[k].atoms = max_size + 1
    /\ WarnedOf("large") # {}

\* Two different (thickness, vacuum) pairs were visited, each gave exactly
\* one candidate, and the two candidates are equal slabs.
TwoPairsSameSlab ==
    /\ Len(calls) = 2
    /\ <<calls[1].slab_t, calls[1].vac_t>> # <<calls[2].slab_t, calls[2].vac_t>>
    /\ Len(provisional) = 2
    /\ <<provisional[1].slab_t, provisional[1].vac_t>>
           = <<calls[1].slab_t, calls[1].vac_t>>
    /\ <<provisional[2].slab_t, provisional[2].vac_t>>
           = <<calls[2].slab_t, calls[2].vac_t>>
    /\ SlabEq(provisional[1].slab, provisional[2].slab)

\* C8 (as claimed): in that case the finished call has written exactly one
\* output and emitted exactly one duplicate warning, whose message names the
\* identifiers of both candidates.
C8_WarningNamesBoth ==
    (pc = "done" /\ TwoPairsSameSlab) =>
        /\ Len(written) = 1
        /\ Cardinality(WarnedOf("repeat")) = 1
        /\ \A k \in WarnedOf("repeat") :
               /\ Ident(provisional[1]) \in Range(warned[k].ids)
               /\ Ident(provisional[2]) \in Range(warned[k].ids)

\* C8 (amended): in that case the finished call has written exactly one
\* output, the one of the first candidate, and emitted exactly one duplicate
\* warning, whose message names the identifier of the discarded second
\* candidate and no other.
C8_WarningNamesDiscarded ==
    (pc = "done" /\ TwoPairsSameSlab) =>
        /\ Len(written) = 1
        /\ written[1].slab = provisional[1].slab
        /\ unique_list_of_dicts = << provisional[1] >>
        /\ Cardinality(WarnedOf("repeat")) = 1
        /\ \A k \in WarnedOf("repeat") :
               warned[k].ids = << Ident(provisional[2]) >>

C8_Witness ==
    /\ pc = "done"
    /\ TwoPairsSameSlab
    /\ Len(written) = 1
    /\ WarnedOf("repeat") # {}

\* C9: no two outputs written by a call have the same path, in either mode;
\* and a call that returns has written exactly one output for every unique
\* slab, in the order of the unique list.
C9_OneOutputPerUnique ==
    /\ \A i, j \in 1..Len(written) : i # j => written[i].path # written[j].path
    /\ Len(written) = wi - 1
    /\ \A i \in 1..Len(written) : written[i].slab = unique_list[i]
    /\ pc = "done" => Len(written) = Len(unique_list)

C9_Witness ==
    /\ pc = "done"
    /\ Len(written) >= 3
    /\ Len(repeat) >= 1
    /\ Len(large) >= 1

\* The scenario of C10: get_one_hkl_slabs in flat mode with hkl=(0,0,1),
\* thicknesses=[10], vacuums=[15], max_size=500, is_symmetric=True, and a
\* generator that returns a single non-polar symmetric termination.
C10_Scenario ==
    /\ fn = "get_one_hkl_slabs"
    /\ unset = {}
    /\ hkl = <<0, 0, 1>>
    /\ thicknesses = <<10>>
    /\ vacuums = <<15>>
    /\ is_symmetric
    /\ ~make_fols /\ ~make_input_files
    /\ pc = "done"
    /\ Len(calls) = 1
    /\ Len(calls[1].slabs) = 1
    /\ ~calls[1].slabs[1].polar
    /\ calls[1].slabs[1].symmetric

\* In flat mode every output is the POSCAR file
\* <bulk_formula>/POSCAR_<hkl>_<slab_t>_<vac_t>_<index>.vasp of its unique
\* slab, <hkl> being the digits of the Miller index put together.
C10_FlatNames ==
    (~make_fols /\ ~make_input_files) =>
        \A i \in 1..Len(written) :
            LET d == unique_list_of_dicts[i]
            IN  /\ written[i].writer = "poscar"
                /\ written[i].path =
                       "Fe2O3/POSCAR_" \o JoinStr(d.slab.miller_index) \o "_"
                       \o ToString(d.slab_t) \o "_" \o ToString(d.vac_t)
                       \o "_" \o ToString(d.s_index) \o ".vasp"

\* C10 (as claimed): the flat-mode naming, and in the scenario exactly one
\* file, Fe2O3/POSCAR_001_10_15_0.vasp, and no warning.
C10_SingleFileNoWarning ==
    /\ C10_FlatNames
    /\ C10_Scenario =>
           /\ Range(written) = { [path |-> "Fe2O3/POSCAR_001_10_15_0.vasp",
                                  writer |-> "poscar",
                                  slab |-> calls[1].slabs[1]] }
           /\ Len(written) = 1
           /\ folders = {"Fe2O3"}
           /\ warned = << >>

\* C10 (amended): the flat-mode naming, and in the scenario exactly one
\* file, Fe2O3/POSCAR_001_10_15_0.vasp; no warning is emitted provided the
\* termination has at most max_size atoms (with more, the oversize warning
\* is emitted and the file is written all the same).
C10_SingleFile ==
    /\ C10_FlatNames
    /\ C10_Scenario =>
           /\ Range(written) = { [path |-> "Fe2O3/POSCAR_001_10_15_0.vasp",
                                  writer |-> "poscar",
                                  slab |-> calls[1].slabs[1]] }
           /\ Len(written) = 1
           /\ folders = {"Fe2O3"}
           /\ (calls[1].slabs[1].atoms <= max_size => warned = << >>)
           /\ (calls[1].slabs[1].atoms > max_size =>
                   warned = << [kind |-> "large", ids |-> <<"001_10_15_0">>] >>)

C10_Witness ==
    /\ C10_Scenario
    /\ calls[1].slabs[1].atoms = max_size
    /\ Len(written) = 1
    /\ warned = << >>

\* The hkl/slab_t_vac_t_index folder of a unique record, spelled out.
FolderOf(d) ==
    JoinStr(d.slab.miller_index) \o "/" \o ToString(d.slab_t) \o "_"
        \o ToString(d.vac_t) \o "_" \o ToString(d.s_index)

\* The output mode has been chosen.
ModeChosen ==
    \/ pc \in {"write", "done"}
    \/ pc = "raised" /\ err = "OSError"

\* C11: the two flags alone choose the mode.  With make_fols or
\* make_input_files every unique slab gets its folder hkl/slab_t_vac_t_index
\* (also with make_input_files alone), the input-file writer is called for
\* it iff make_input_files is set, and otherwise only the POSCAR in that
\* folder is written; no bulk-formula folder is made.  With neither flag the
\* bulk-formula folder is the only folder made and no input files are
\* written.
C11_ModeByFlags ==
    /\ \A i \in 1..Len(written) :
           LET d == unique_list_of_dicts[i]
           IN  IF make_fols \/ make_input_files
               THEN /\ FolderOf(d) \in folders
                    /\ (written[i].writer = "write_input") <=> make_input_files
                    /\ make_input_files =>
                           written[i].path \in
                               {FolderOf(d), Getcwd \o "/" \o FolderOf(d)}
                    /\ ~make_input_files =>
                           written[i].path = FolderOf(d) \o "/POSCAR"
               ELSE /\ written[i].writer = "poscar"
                    /\ FolderOf(d) \notin folders
    /\ ModeChosen =>
           IF make_fols \/ make_input_files
           THEN /\ "Fe2O3" \notin folders
                /\ folders \subseteq
                       UNION { {JoinStr(unique_list_of_dicts[k].slab.miller_index),
                                FolderOf(unique_list_of_dicts[k])} :
                                   k \in 1..Len(unique_list_of_dicts) }
           ELSE folders = {"Fe2O3"}

C11_Witness ==
    /\ pc = "done"
    /\ make_input_files
    /\ ~make_fols
    /\ Len(written) >= 2
    /\ Cardinality(folders) >= 3

\* The two loops have been left without an exception.
EnumerationDone ==
    \/ pc \in {"dedup", "emit", "write", "done"}
    \/ pc = "raised" /\ err = "OSError"

\* Number of positions of seq that hold x.
Count(seq, x) == Cardinality({ k \in 1..Len(seq) : seq[k] = x })

\* C12: when the loops are left the generator has been invoked once for
\* each position pair of vacuums x thicknesses, and each termination it
\* returned was put to the selection policy once: the terminations
\* considered are those of all calls together, and the candidates are those
\* among them that pass, counted with their multiplicity.
C12_OncePerPair ==
    /\ EnumerationDone =>
           /\ Len(calls) = Len(vacuums) * Len(thicknesses)
           /\ \A t \in Range(thicknesses), v \in Range(vacuums) :
                  Cardinality({ k \in 1..Len(calls) :
                                   calls[k].slab_t = t /\ calls[k].vac_t = v })
                      = Count(thicknesses, t) * Count(vacuums, v)
    /\ Len(provisional) =
           Cardinality({ ki \in (1..Len(calls)) \X (1..MaxTotal) :
                            /\ ki[2] <= Len(calls[ki[1]].slabs)
                            /\ ~calls[ki[1]].slabs[ki[2]].polar
                            /\ (is_symmetric =>
                                    calls[ki[1]].slabs[ki[2]].symmetric) })

C12_Witness ==
    /\ pc = "dedup"
    /\ thicknesses = <<10, 20>>
    /\ vacuums = <<15, 30>>
    /\ Len(calls) = 4
    /\ Returned(calls) >= 3
    /\ Len(provisional) >= 1
    /\ Len(provisional) < Returned(calls)

\* C13: a second pass over the same ordered candidate list gives the unique
\* lists and the duplicate list the call has got, and a pass over the call's
\* own unique records accepts every one of them again, in order, with an
\* empty duplicate list.
C13_DedupIdempotent ==
    AfterDedup =>
        LET second == DedupPass(provisional)
            again == DedupPass(unique_list_of_dicts)
        IN  /\ second.unique_list = unique_list
            /\ second.unique_list_of_dicts = unique_list_of_dicts
            /\ second.repeat = repeat
            /\ again.unique_list = unique_list
            /\ again.unique_list_of_dicts = unique_list_of_dicts
            /\ again.repeat = << >>

C13_Witness ==
    /\ pc = "done"
    /\ Len(unique_list) >= 2
    /\ Len(repeat) >= 2

\* C14: oxidation_states calls exactly one decorator and returns the
\* structure: by element for a dict, by site for a list, by guess for None
\* and for everything else.  Nothing is validated before the decorator is
\* called, and the call raises exactly when the decorator does (an element
\* missing from the dict, a list of the wrong length).
C14_OneDecoration ==
    pc # "oxidation_states" =>
        /\ Len(decorated) = 1
        /\ decorated[1] = (IF ox_states.type = "dict" THEN "by_element"
                           ELSE IF ox_states.type = "list" THEN "by_site"
                           ELSE "by_guess")
        /\ pc \in {"returned", "raised"}
        /\ (pc = "raised") <=>
               \/ /\ ox_states.type = "dict"
                  /\ \E k \in 1..Len(struc) :
                         struc[k].species \notin DOMAIN ox_states.by_element
               \/ /\ ox_states.type = "list"
                  /\ Len(ox_states.by_site) # Len(struc)
        /\ pc = "raised" => err = "LibraryError"
        /\ pc = "returned" =>
               \A k \in 1..Len(struc) :
                   struc[k].oxi =
                       (IF ox_states.type = "dict"
                        THEN ox_states.by_element[struc[k].species]
                        ELSE IF ox_states.type = "list"
                        THEN ox_states.by_site[k]
                        ELSE IF struc[k].species = "Fe" THEN 3 ELSE -2)

C14_Witness ==
    /\ pc = "returned"
    /\ ox_states.type = "list"
    /\ Len(struc) = 2
    /\ struc[1].species = "O"
    /\ struc[1].oxi = -2
    /\ struc[2].oxi = 3

\* C15 (as claimed): in both functions a warning is emitted only when every
\* candidate of the call has been classified, and a call that has warned
\* goes on to the write step.
C15_WarningsAfterLastCandidate ==
    /\ warned # << >> => di > Len(provisional)
    /\ (warned # << >> /\ pc = "raised") => err = "OSError"

\* The candidates of one generator call: its terminations numbered from 0
\* in the order returned, those that fail the policy left out.
CandidatesOfCall(c) ==
    SelectSeq([i \in 1..Len(c.slabs) |->
                  [hkl |-> JoinStr(c.slabs[i].miller_index),
                   slab_t |-> c.slab_t, vac_t |-> c.vac_t, s_index |-> i - 1,
                   slab |-> c.slabs[i]]],
              LAMBDA e : ~e.slab.polar /\ (is_symmetric => e.slab.symmetric))

RECURSIVE CandidatesOfCalls(_)
CandidatesOfCalls(cs) ==
    IF cs = << >> THEN << >>
    ELSE CandidatesOfCall(Head(cs)) \o CandidatesOfCalls(Tail(cs))

\* C16: the generator is called with the vacuums as the outer and the
\* thicknesses as the inner loop, and provisional holds the candidates of
\* the calls in that order; s_index is the position of the termination in
\* the generator's unfiltered answer for its pair.
C16_GenerationOrder ==
    /\ \A k \in 1..Len(calls) :
           /\ calls[k].vac_t = vacuums[((k - 1) \div Len(thicknesses)) + 1]
           /\ calls[k].slab_t = thicknesses[((k - 1) % Len(thicknesses)) + 1]
    /\ provisional = CandidatesOfCalls(calls)

C16_Witness ==
    /\ pc = "dedup"
    /\ thicknesses = <<10, 20>>
    /\ vacuums = <<15, 30>>
    /\ Len(calls) = 4
    /\ Len(provisional) >= 3
    /\ provisional[1].slab_t = 20 /\ provisional[1].vac_t = 15
    /\ provisional[1].s_index = 1
    /\ provisional[2].slab_t = 10 /\ provisional[2].vac_t = 30
    /\ provisional[3].s_index = 0

\* C17: when the write of the k-th unique slab raises, the call ends with
\* that exception, the outputs of the unique slabs 1..k-1 are what has been
\* written, and nothing is written afterwards; no step ever removes an
\* output or a folder.
C17_Failed ==
    (pc = "raised" /\ err = "OSError") =>
        /\ wi <= Len(unique_list_of_dicts)
        /\ Len(written) = wi - 1
        /\ \A i \in 1..(wi - 1) : written[i].slab = unique_list[i]

C17_Step ==
    /\ Len(written') >= Len(written)
    /\ SubSeq(written', 1, Len(written)) = written
    /\ folders \subseteq folders'
    /\ pc = "raised" => (pc' = "raised" /\ err' = err /\ written' = written)

C17_NoRollback == [](C17_Failed) /\ [][C17_Step]_vars

C17_Witness ==
    /\ pc = "raised"
    /\ err = "OSError"
    /\ wi = 2
    /\ Len(unique_list_of_dicts) = 3
    /\ Len(written) = 1

\* The first candidate visited so far that equals the slab.
FirstEqual(slab) ==
    CHOOSE j \in 1..(di - 1) :
        /\ SlabEq(provisional[j].slab, slab)
        /\ \A i \in 1..(j - 1) : ~SlabEq(provisional[i].slab, slab)

\* C18: after every step the two unique lists are index-aligned, every
\* unique record is the earliest candidate of its class of equal candidates,
\* the records are in generation order, and every candidate visited has its
\* class in the list.
C18_KeepsFirst ==
    /\ Len(unique_list) = Len(unique_list_of_dicts)
    /\ \A k \in 1..Len(unique_list_of_dicts) :
           /\ unique_list[k] = unique_list_of_dicts[k].slab
           /\ \E j \in 1..(di - 1) :
                  SlabEq(provisional[j].slab, unique_list[k])
           /\ unique_list_of_dicts[k] = provisional[FirstEqual(unique_list[k])]
    /\ \A k, l \in 1..Len(unique_list) :
           k < l => FirstEqual(unique_list[k]) < FirstEqual(unique_list[l])
    /\ \A j \in 1..(di - 1) :
           \E k \in 1..Len(unique_list) :
               SlabEq(provisional[j].slab, unique_list[k])

C18_Witness ==
    /\ pc = "dedup"
    /\ di = Len(provisional) + 1
    /\ Len(unique_list) = 2
    /\ Len(repeat) = 2
    /\ SlabEq(provisional[1].slab, provisional[3].slab)
    /\ SlabEq(provisional[2].slab, provisional[4].slab)

\* The place, relative to the working directory, of the output of a unique
\* record under the two mode flags.
PlaceOf(d) ==
    IF make_input_files THEN FolderOf(d)
    ELSE IF make_fols THEN FolderOf(d) \o "/POSCAR"
    ELSE "Fe2O3/POSCAR_" \o JoinStr(d.slab.miller_index) \o "_"
         \o ToString(d.slab_t) \o "_" \o ToString(d.vac_t) \o "_"
         \o ToString(d.s_index) \o ".vasp"

\* C19: the decisions of a call are the same function of the candidate
\* list, max_size and the mode flags in get_one_hkl_slabs and in
\* get_all_slabs: the unique lists, the duplicate list and the oversize list
\* are those of one pass over the candidates, every output lies at the place
\* its record and the flags give, and the last warning of each kind lists
\* the whole duplicate (oversize) list; get_one_hkl_slabs emits each warning
\* once, get_all_slabs possibly more often.
C19_SameDecisions ==
    /\ AfterDedup =>
           /\ DedupPass(provisional) =
                  [unique_list |-> unique_list,
                   unique_list_of_dicts |-> unique_list_of_dicts,
                   repeat |-> repeat, large |-> large]
           /\ \A kind \in {"repeat", "large"} :
                  LET list == IF kind = "repeat" THEN repeat ELSE large
                      at == WarnedOf(kind)
                  IN  /\ (list # << >>) <=> (at # {})
                      /\ at # {} =>
                             warned[CHOOSE k \in at : \A l \in at : l <= k].ids
                                 = list
                      /\ fn = "get_one_hkl_slabs" => Cardinality(at) <= 1
    /\ \A i \in 1..Len(written) :
           /\ written[i].slab = unique_list[i]
           /\ written[i].path \in
                  {PlaceOf(unique_list_of_dicts[i]),
                   Getcwd \o "/" \o PlaceOf(unique_list_of_dicts[i])}
    /\ pc = "done" => Len(written) = Len(unique_list_of_dicts)

C19_Witness ==
    /\ fn = "get_all_slabs"
    /\ pc = "done"
    /\ Len(provisional) >= 3
    /\ Len(repeat) >= 1
    /\ Len(large) >= 1
    /\ Cardinality(WarnedOf("large")) >= 2
    /\ Len(written) >= 2
====
